---- MODULE Spec2Model ----
(***************************************************************************)
(* VK-Gateway: the request-routing pipeline.                               *)
(*   src/src/health.rs                  HealthChecker (health map, probes) *)
(*   src/src/load_balancer/strategies.rs  the four balancing strategies     *)
(*   src/src/proxy.rs                   proxy_handler (default proxy)      *)
(* Each request is a task; one action is one run of the handler between    *)
(* two points where it awaits (or touches shared state under a lock).      *)
(* Instant values (last_check) and log output are not modelled.            *)
(***************************************************************************)
EXTENDS Integers, Sequences, FiniteSets, TLC

VARIABLES
    backends,       \* ProxyState.backends: the registry, an immutable sequence
    strategy,       \* which LoadBalancer create_load_balancer built
    health_status,  \* HealthChecker.health_status: server_id -> HealthStatus
    recovered,      \* history: ids whose latest probe was a success on an unhealthy entry
    counter,        \* RoundRobinBalancer / WeightedRoundRobinBalancer .counter
    connections,    \* LeastConnectionsBalancer.connections: server_id -> count
    req,            \* the request tasks of proxy_handler, one record per task
    started,        \* history: requests received so far
    selects,        \* history: select_backend calls that returned Some
    releases,       \* history: release_backend calls
    fetched,          \* select_backend callers: the counter value each one fetched
    returned,       \* history: counter value -> server_id select_backend returned for it
    used,           \* history: counter value -> select_backend calls that fetched it
    now,            \* the cache server's clock, in seconds
    config,         \* RateLimiterConfig
    cache,          \* the cache entries of one token: key -> [value, expires_at]
    chk,            \* the rate_limit_middleware tasks, one record per task
    checks,         \* history: requests the middleware has received
    epoch,          \* history: count entries created so far
    allows,         \* history: count entry (by epoch) -> allows among the calls that incremented it
    allow_log,      \* history: time -> allows returned then, over the last window, block absent
    since_clear,    \* history: what has touched the token's entries since the last clear
    info,           \* the task calling get_rate_limit_info
    raw_path,       \* the request path handed to extract_file_id_from_path, as tokens
    extracted,      \* what extract_file_id_from_path returned for raw_path
    sreq,           \* the request task of proxy_to_specific_backend
    stats,          \* the last snapshot gateway_stats returned
    applied,        \* history: server_id -> failure results applied since the last success
    in_flight,      \* the probe tasks start_health_checks has spawned and that have not finished
    probe_tick      \* history: ticks of the health-check interval so far

\* The state of the balancer callers outside proxy_handler.
selectVars == <<fetched, returned, used>>

\* The state of the rate limiter.
limiterVars == <<now, config, cache, chk, checks, epoch, allows, allow_log, since_clear, info>>

\* A call of extract_file_id_from_path on its own.
pathVars == <<raw_path, extracted>>

\* The handlers beside proxy_handler, and the history of the probes.
specificVars == <<sreq>>
statsVars == <<stats>>
probeVars == <<applied, in_flight, probe_tick>>
lateVars == <<specificVars, statsVars, probeVars>>

\* The state of the registry, the health monitor, the balancer and proxy_handler.
proxyVars == <<backends, strategy, health_status, recovered, counter, connections,
               req, started, selects, releases>>

auxVars == <<selectVars, limiterVars, pathVars, lateVars>>

vars == <<backends, strategy, health_status, recovered, counter, connections,
          req, started, selects, releases, auxVars>>

----------------------------------------------------------------------------
(* Bounds *)

MaxStarted == 3        \* requests received in one behaviour
MaxFailures == 4       \* cap on consecutive_failures
MaxSelects == 10       \* select_backend calls on one balancer in one behaviour
MaxLimit == 2          \* largest max_requests configured
WindowSecs == 2        \* window_secs configured
BlockSecs == 3         \* block_duration_secs configured
MaxTime == 3           \* seconds one behaviour lasts
MaxChecks == 4         \* requests the rate-limit middleware receives in one behaviour
MaxSegments == 5       \* segments of a request path
MaxTicks == 4          \* ticks of the health-check interval in one behaviour

\* The request tasks in flight together: one in Spec, where the health monitor
\* runs beside it, two in SpecLC, where the tasks race on the balancer.
OneTask == {"t1"}
TwoTasks == {"t1", "t2"}

----------------------------------------------------------------------------
(* Program constants *)

FailureThreshold == 3
INTERNAL_SERVER_ERROR == "500"
BAD_GATEWAY == "502"
SERVICE_UNAVAILABLE == "503"
SupabaseWeight == 3
GdriveWeight == 1
DefaultWeight == 1

----------------------------------------------------------------------------
(* Data *)

\* HashMap::new()
EmptyMap == [x \in {} |-> 0]

NoId == "-"
NoFile == "-"

\* A task's response: none yet, or the origin's own response passed through
\* (whatever its status), or one of the gateway's status codes above.
NoResponse == "none"
Upstream == "upstream"

\* db::Backend, without server_name and server_url
Backend(id, provider) == [server_id |-> id, provider |-> provider]

BackendA == Backend("A", "supabase")
BackendB == Backend("B", "gdrive")
BackendD == Backend("D", "s3")

\* The registries the gateway is started with.
Registries == { <<BackendA, BackendB>> }

\* server_ids the catalog's metadata table can name; "C" is in no registry.
CatalogIds == {"A", "B", "C"}

\* A caller that is not inside select_backend.
NoCall == -1

\* No select_backend caller besides the request tasks.
NoCallers ==
    /\ fetched = EmptyMap
    /\ returned = EmptyMap
    /\ used = EmptyMap

\* A cache entry without a time to live.
NoExpiry == -1

\* RateLimiterConfig; max_requests is a u32, so 0 is a configuration too.
Configs ==
    { [max_requests |-> m, window_secs |-> WindowSecs, block_duration_secs |-> BlockSecs] :
        m \in 0..MaxLimit }

\* get_rate_limit_info before it is called; -1 stands for None and for the
\* ttl the code starts from when neither entry is there.
IdleInfo == [pc |-> "idle", is_blocked |-> FALSE, request_count |-> -1, ttl |-> -1]

\* No request with an upload token ever arrives.
NoLimiter ==
    /\ now = 0
    /\ config \in { [max_requests |-> MaxLimit, window_secs |-> WindowSecs,
                      block_duration_secs |-> BlockSecs] }
    /\ cache = EmptyMap
    /\ chk = EmptyMap
    /\ checks = 0
    /\ epoch = 0
    /\ allows = EmptyMap
    /\ allow_log = EmptyMap
    /\ since_clear = "other"
    /\ info = IdleInfo

\* extract_file_id_from_path has not returned.
NotYet == "?"

\* No path is examined outside proxy_handler.
NoPath ==
    /\ raw_path = <<>>
    /\ extracted = NotYet

NOT_FOUND == "404"

\* proxy_to_specific_backend before a request arrives.
IdleSpecific ==
    [pc |-> "idle", server_id |-> NoId, rest |-> <<>>, path |-> <<>>, query |-> <<>>,
     url |-> <<>>, forwarded |-> FALSE, status |-> NoResponse]

\* gateway_stats has not been called.
NoStats == [total_backends |-> -1, healthy_backends |-> -1, backends |-> <<>>]

\* Nothing arrives on the specific-backend route or the stats route.
NoLate ==
    /\ sreq = IdleSpecific
    /\ stats = NoStats
    /\ applied = EmptyMap
    /\ in_flight = {}
    /\ probe_tick = 0

AuxInit == NoCallers /\ NoLimiter /\ NoPath /\ NoLate

Strategies == {"RoundRobin", "LeastConnections", "Random", "WeightedRoundRobin"}

\* Request paths, as the segments left by trim_start_matches('/').split('/').
Paths == { <<"api", "v1", "files", "f1">>, <<"upload">> }

Ids(s) == { s[i].server_id : i \in 1..Len(s) }

\* The sum of a map's values over the keys ids.
RECURSIVE SumCounts(_, _)
SumCounts(conn, ids) ==
    IF ids = {} THEN 0
    ELSE LET id == CHOOSE x \in ids : TRUE
         IN conn[id] + SumCounts(conn, ids \ {id})

RECURSIVE SeqFilter(_, _)
SeqFilter(s, keep) ==
    IF s = <<>> THEN <<>>
    ELSE IF Head(s).server_id \in keep
         THEN <<Head(s)>> \o SeqFilter(Tail(s), keep)
         ELSE SeqFilter(Tail(s), keep)

----------------------------------------------------------------------------
(* health.rs *)

NewHealthStatus == [is_healthy |-> TRUE, consecutive_failures |-> 0]

\* check_backend, the update under the write lock (an off-by-one threshold)
\* check_backend (the failure count stops at the threshold)
ApplyProbeCapped(h, id, ok) ==
    LET entry == IF id \in DOMAIN h THEN h[id] ELSE NewHealthStatus
        n == IF entry.consecutive_failures >= FailureThreshold
             THEN entry.consecutive_failures ELSE entry.consecutive_failures + 1
        new == IF ok
               THEN [is_healthy |-> TRUE, consecutive_failures |-> 0]
               ELSE [is_healthy |-> IF n >= FailureThreshold THEN FALSE ELSE entry.is_healthy,
                     consecutive_failures |-> n]
    IN [x \in DOMAIN h \cup {id} |-> IF x = id THEN new ELSE h[x]]

ApplyProbeLate(h, id, ok) ==
    LET entry == IF id \in DOMAIN h THEN h[id] ELSE NewHealthStatus
        n == entry.consecutive_failures + 1
        new == IF ok
               THEN [is_healthy |-> TRUE, consecutive_failures |-> 0]
               ELSE [is_healthy |-> IF n > FailureThreshold THEN FALSE ELSE entry.is_healthy,
                     consecutive_failures |-> n]
    IN [x \in DOMAIN h \cup {id} |-> IF x = id THEN new ELSE h[x]]

\* check_backend (a success only clears the failure count)
ApplyProbeSticky(h, id, ok) ==
    LET entry == IF id \in DOMAIN h THEN h[id] ELSE NewHealthStatus
        n == entry.consecutive_failures + 1
        new == IF ok
               THEN [is_healthy |-> entry.is_healthy, consecutive_failures |-> 0]
               ELSE [is_healthy |-> IF n >= FailureThreshold THEN FALSE ELSE entry.is_healthy,
                     consecutive_failures |-> n]
    IN [x \in DOMAIN h \cup {id} |-> IF x = id THEN new ELSE h[x]]

\* check_backend, lines 92-119: entry(..).or_insert(..), then the update.
ApplyProbe(h, id, ok) ==
    LET entry == IF id \in DOMAIN h THEN h[id] ELSE NewHealthStatus
        n == entry.consecutive_failures + 1
        new == IF ok
               THEN [is_healthy |-> TRUE, consecutive_failures |-> 0]
               ELSE [is_healthy |-> IF n >= FailureThreshold THEN FALSE ELSE entry.is_healthy,
                     consecutive_failures |-> n]
    IN [x \in DOMAIN h \cup {id} |-> IF x = id THEN new ELSE h[x]]

\* is_backend_healthy (the health map is not consulted)
is_backend_healthy_always(h, id) == TRUE

\* is_backend_healthy: get(id).map(is_healthy).unwrap_or(true)
is_backend_healthy(h, id) ==
    IF id \in DOMAIN h THEN h[id].is_healthy ELSE TRUE

\* get_healthy_backends (the filter keeps every backend)
get_healthy_backends_all(h, bs) == bs

\* get_healthy_backends: the registry filtered, in registry order
get_healthy_backends(h, bs) ==
    SeqFilter(bs, { id \in Ids(bs) : IF id \in DOMAIN h THEN h[id].is_healthy ELSE TRUE })

\* The ids the health map marks unhealthy (read off the map itself).
MarkedUnhealthy(h) == { id \in DOMAIN h : ~h[id].is_healthy }

----------------------------------------------------------------------------
(* load_balancer/strategies.rs *)

\* connections.get(id).unwrap_or(&0)
Count(conn, id) == IF id \in DOMAIN conn THEN conn[id] ELSE 0

\* Iterator::min_by_key keeping the later of two equal keys
RECURSIVE MinByKeyLastFrom(_, _, _)
MinByKeyLastFrom(best, rest, conn) ==
    IF rest = <<>> THEN best
    ELSE MinByKeyLastFrom(
            IF Count(conn, best.server_id) >= Count(conn, Head(rest).server_id)
            THEN Head(rest) ELSE best,
            Tail(rest), conn)

\* Iterator::min_by_key as a fold: the running minimum is replaced only by a
\* strictly smaller key, so the first of several minima is returned.
RECURSIVE MinByKeyFrom(_, _, _)
MinByKeyFrom(best, rest, conn) ==
    IF rest = <<>> THEN best
    ELSE MinByKeyFrom(
            IF Count(conn, best.server_id) > Count(conn, Head(rest).server_id)
            THEN Head(rest) ELSE best,
            Tail(rest), conn)

\* LeastConnectionsBalancer::select_backend, lines 62-70 (under the read lock)
LeastConnected(bs, conn) == MinByKeyFrom(Head(bs), Tail(bs), conn)

\* lines 75-78: *connections.entry(id).or_insert(0) += 1
Increment(conn, id) ==
    [x \in DOMAIN conn \cup {id} |-> IF x = id THEN Count(conn, id) + 1 ELSE conn[x]]

\* LeastConnectionsBalancer::release_backend: saturating_sub(1) on an existing entry
Decrement(conn, id) ==
    IF id \in DOMAIN conn
    THEN [conn EXCEPT ![id] = IF @ > 0 THEN @ - 1 ELSE 0]
    ELSE conn

\* WeightedRoundRobinBalancer::get_weight
get_weight(provider) ==
    CASE provider = "supabase" -> SupabaseWeight
      [] provider = "gdrive" -> GdriveWeight
      [] OTHER -> DefaultWeight

Repeat(x, n) == [i \in 1..n |-> x]

\* WeightedRoundRobinBalancer::select_backend, lines 162-169
RECURSIVE weighted_backends(_)
weighted_backends(bs) ==
    IF bs = <<>> THEN <<>>
    ELSE Repeat(Head(bs), get_weight(Head(bs).provider)) \o weighted_backends(Tail(bs))

fetch_add_lost(c) == c

\* AtomicUsize::fetch_add(1, Relaxed): one indivisible read-modify-write; the
\* caller gets c and the counter holds the value below.  The counter is a
\* usize and wraps at 2^64, which no bounded run comes near.
fetch_add(c) == c + 1

round_robin_select_first(c, bs) == bs[1]

\* RoundRobinBalancer::select_backend, lines 29-30: backends[c % len], for
\* the value c that fetch_add returned
round_robin_select(c, bs) == bs[(c % Len(bs)) + 1]

weighted_select_unweighted(c, bs) == bs[(c % Len(bs)) + 1]

\* WeightedRoundRobinBalancer::select_backend, lines 162-176: the candidates
\* are expanded by weight and indexed by c % (total weight)
weighted_select(c, bs) ==
    LET wb == weighted_backends(bs)
    IN wb[(c % Len(wb)) + 1]

----------------------------------------------------------------------------
(* proxy.rs *)

extract_file_id_from_path_greedy(segments) ==
    LET n == Len(segments) IN
    IF n >= 4 /\ segments[1] = "api" /\ segments[3] = "files" /\ segments[4] = "download"
    THEN (IF n >= 5 THEN segments[5] ELSE NoFile)
    ELSE IF n >= 4 /\ segments[1] = "api" /\ segments[3] = "files" /\ n = 4
    THEN segments[4]
    ELSE IF n >= 2 /\ segments[1] = "files" /\ segments[2] = "download"
    THEN (IF n >= 3 THEN segments[3] ELSE NoFile)
    ELSE IF n >= 2 /\ segments[1] = "files" /\ n = 2
    THEN segments[2]
    ELSE IF n = 2 /\ segments[1] = "download"
    THEN segments[2]
    ELSE NoFile

\* extract_file_id_from_path on the split segments
extract_file_id_from_path(segments) ==
    LET n == Len(segments) IN
    IF n >= 4 /\ segments[1] = "api" /\ segments[3] = "files"
       /\ n >= 5 /\ segments[4] = "download"
    THEN segments[5]
    ELSE IF n >= 4 /\ segments[1] = "api" /\ segments[3] = "files" /\ n = 4
    THEN segments[4]
    ELSE IF n >= 2 /\ segments[1] = "files" /\ n >= 3 /\ segments[2] = "download"
    THEN segments[3]
    ELSE IF n >= 2 /\ segments[1] = "files" /\ n = 2
    THEN segments[2]
    ELSE IF n = 2 /\ segments[1] = "download"
    THEN segments[2]
    ELSE NoFile

\* A path is a sequence of tokens: "/" or a maximal run of other characters.
Slash == "/"

\* str::trim_start_matches('/'): every leading slash is removed
RECURSIVE trim_start_matches(_)
trim_start_matches(path) ==
    IF path # <<>> /\ Head(path) = Slash THEN trim_start_matches(Tail(path)) ELSE path

\* str::split('/'): the pieces between the slashes, the empty ones included,
\* so the empty string splits into one empty piece
RECURSIVE split(_)
split(path) ==
    IF path = <<>> THEN <<"">>
    ELSE IF Head(path) = Slash THEN <<"">> \o split(Tail(path))
    ELSE IF Tail(path) = <<>> THEN <<Head(path)>>
    ELSE <<Head(path)>> \o split(Tail(Tail(path)))

\* extract_file_id_from_path, line 75 and then lines 78-99
extract_file_id(path) == extract_file_id_from_path(split(trim_start_matches(path)))

\* What get_file_backend can answer.
LookupResults ==
    { [kind |-> "found", server_id |-> id] : id \in CatalogIds }
    \cup { [kind |-> "not_found", server_id |-> NoId],
           [kind |-> "error", server_id |-> NoId] }

\* A task's locals: file_id, owner (the Ok(Some(server_id)) of the lookup),
\* healthy_backends, selected (inside select_backend), backend, status (the
\* response). The other fields are history: seen_unhealthy and conn_seen are
\* what the health map and the count map held when the task read them,
\* select_calls and released count its calls of select_backend and
\* release_backend, via_lb says its backend came from select_backend, and
\* forwarded that client.request was issued.
IdleRequest ==
    [pc |-> "idle", file_id |-> NoFile, owner |-> NoId,
     healthy_backends |-> <<>>, seen_unhealthy |-> {}, conn_seen |-> EmptyMap,
     select_calls |-> 0, selected |-> NoId, backend |-> NoId, via_lb |-> FALSE,
     forwarded |-> FALSE, status |-> NoResponse, released |-> 0]

\* A task that has ended: its routing locals are dropped.
Ended(q, pc, code) ==
    [q EXCEPT !.pc = pc, !.status = code, !.healthy_backends = <<>>,
              !.seen_unhealthy = {}, !.conn_seen = EmptyMap, !.selected = NoId]

\* proxy_handler, lines 110-148: the arms of the match on the lookup's result
\* (a catalog error is answered with 500 instead of falling back)
resolve_lookup_strict(result, bs) ==
    CASE result.kind = "found" /\ result.server_id \in Ids(bs) ->
            [pc |-> "is_backend_healthy", status |-> NoResponse]
      [] result.kind = "found" /\ result.server_id \notin Ids(bs) ->
            [pc |-> "done", status |-> INTERNAL_SERVER_ERROR]
      [] result.kind = "not_found" ->
            [pc |-> "get_healthy_backends", status |-> NoResponse]
      [] OTHER ->
            [pc |-> "done", status |-> INTERNAL_SERVER_ERROR]

resolve_lookup_lenient(result, bs) ==
    CASE result.kind = "found" /\ result.server_id \in Ids(bs) ->
            [pc |-> "is_backend_healthy", status |-> NoResponse]
      [] OTHER ->
            [pc |-> "get_healthy_backends", status |-> NoResponse]

\* proxy_handler, lines 110-148: the arms of the match on the lookup's result
resolve_lookup(result, bs) ==
    CASE result.kind = "found" /\ result.server_id \in Ids(bs) ->
            [pc |-> "is_backend_healthy", status |-> NoResponse]
      [] result.kind = "found" /\ result.server_id \notin Ids(bs) ->
            [pc |-> "done", status |-> INTERNAL_SERVER_ERROR]
      [] OTHER ->
            [pc |-> "get_healthy_backends", status |-> NoResponse]

----------------------------------------------------------------------------
(* State after construction (main.rs, lines 69-102) *)

InitWith(tasks, strategies) ==
    /\ backends \in Registries
    /\ strategy \in strategies
    /\ health_status = EmptyMap
    /\ recovered = {}
    /\ counter = 0
    /\ connections = EmptyMap
    /\ req = [r \in tasks |-> IdleRequest]
    /\ started = 0
    /\ selects = 0
    /\ releases = 0
    /\ AuxInit

Init == InitWith(OneTask, Strategies)

InitLC == InitWith(TwoTasks, {"LeastConnections"})

Tasks == DOMAIN req

----------------------------------------------------------------------------
(* Health monitor *)

\* One probe of start_health_checks completes with result ok and check_backend
\* applies it under the write lock (lines 92-119).
UpdateHealth(id, ok) ==
    /\ id \in Ids(backends)
    /\ IF ok \/ id \notin DOMAIN health_status
       THEN TRUE
       ELSE health_status[id].consecutive_failures < MaxFailures
    /\ health_status' = ApplyProbe(health_status, id, ok)
    /\ recovered' = IF ok /\ id \in MarkedUnhealthy(health_status)
                    THEN recovered \cup {id}
                    ELSE recovered \ {id}
    /\ applied' = [x \in DOMAIN applied \cup {id} |->
                      IF x # id THEN applied[x]
                      ELSE IF ok THEN 0
                      ELSE (IF id \in DOMAIN applied THEN applied[id] ELSE 0) + 1]
    /\ UNCHANGED <<selectVars, limiterVars, pathVars, specificVars, statsVars>>
    /\ UNCHANGED <<backends, strategy, counter, connections, req, started, selects, releases>>

check_backend(id, ok) ==
    /\ UpdateHealth(id, ok)
    /\ UNCHANGED <<in_flight, probe_tick>>

----------------------------------------------------------------------------
(* proxy_handler *)

\* lines 107-110: the request arrives and the file ID is extracted from its path
ReceiveRequest(r, path) ==
    /\ req[r].pc = "idle"
    /\ started < MaxStarted
    /\ LET fid == extract_file_id_from_path(path) IN
       req' = [req EXCEPT ![r] =
                  [IdleRequest EXCEPT
                      !.pc = IF fid = NoFile THEN "get_healthy_backends"
                                             ELSE "get_file_backend",
                      !.file_id = fid]]
    /\ started' = started + 1
    /\ UNCHANGED auxVars
    /\ UNCHANGED <<backends, strategy, health_status, recovered, counter, connections,
                   selects, releases>>

\* lines 114-148: get_file_backend answers; the owner is looked up in the registry
GetFileBackend(r, result) ==
    /\ req[r].pc = "get_file_backend"
    /\ LET next == resolve_lookup(result, backends) IN
       req' = [req EXCEPT ![r].pc = next.pc,
                          ![r].status = next.status,
                          ![r].owner = result.server_id]
    /\ UNCHANGED auxVars
    /\ UNCHANGED <<backends, strategy, health_status, recovered, counter, connections,
                   started, selects, releases>>

\* lines 122-126: the owner's health is read; unhealthy is 503
IsBackendHealthy(r) ==
    /\ req[r].pc = "is_backend_healthy"
    /\ LET seen == MarkedUnhealthy(health_status) \cap {req[r].owner} IN
       IF is_backend_healthy(health_status, req[r].owner)
       THEN req' = [req EXCEPT ![r].pc = "build_uri",
                               ![r].backend = req[r].owner,
                               ![r].seen_unhealthy = seen]
       ELSE req' = [req EXCEPT ![r].pc = "done",
                               ![r].status = SERVICE_UNAVAILABLE,
                               ![r].seen_unhealthy = seen]
    /\ UNCHANGED auxVars
    /\ UNCHANGED <<backends, strategy, health_status, recovered, counter, connections,
                   started, selects, releases>>

\* select_backend_via_load_balancer, lines 51-56: the healthy subset is read
GetHealthyBackends(r) ==
    /\ req[r].pc = "get_healthy_backends"
    /\ LET hb == get_healthy_backends(health_status, backends) IN
       IF hb = <<>>
       THEN req' = [req EXCEPT ![r].pc = "done",
                               ![r].status = SERVICE_UNAVAILABLE,
                               ![r].seen_unhealthy = MarkedUnhealthy(health_status)]
       ELSE req' = [req EXCEPT ![r].pc = "select_backend",
                               ![r].healthy_backends = hb,
                               ![r].seen_unhealthy = MarkedUnhealthy(health_status)]
    /\ UNCHANGED auxVars
    /\ UNCHANGED <<backends, strategy, health_status, recovered, counter, connections,
                   started, selects, releases>>

\* The handler's state once a select_backend called at `calls` has returned Some(id).
Selected(r, id, calls) ==
    [req EXCEPT ![r].pc = "build_uri",
                ![r].backend = id,
                ![r].via_lb = TRUE,
                ![r].select_calls = calls]

\* RoundRobinBalancer::select_backend: counter.fetch_add(1) % len
SelectRoundRobin(r) ==
    /\ req[r].pc = "select_backend"
    /\ strategy = "RoundRobin"
    /\ req' = Selected(r, round_robin_select(counter, req[r].healthy_backends).server_id,
                       req[r].select_calls + 1)
    /\ counter' = fetch_add(counter)
    /\ selects' = selects + 1
    /\ UNCHANGED auxVars
    /\ UNCHANGED <<backends, strategy, health_status, recovered, connections,
                   started, releases>>

\* RandomBalancer::select_backend: a hash of the clock, modulo len
SelectRandom(r) ==
    /\ req[r].pc = "select_backend"
    /\ strategy = "Random"
    /\ \E index \in 0..(Len(req[r].healthy_backends) - 1) :
          req' = Selected(r, req[r].healthy_backends[index + 1].server_id,
                          req[r].select_calls + 1)
    /\ selects' = selects + 1
    /\ UNCHANGED auxVars
    /\ UNCHANGED <<backends, strategy, health_status, recovered, counter, connections,
                   started, releases>>

\* WeightedRoundRobinBalancer::select_backend
SelectWeighted(r) ==
    /\ req[r].pc = "select_backend"
    /\ strategy = "WeightedRoundRobin"
    /\ req' = Selected(r, weighted_select(counter, req[r].healthy_backends).server_id,
                       req[r].select_calls + 1)
    /\ counter' = fetch_add(counter)
    /\ selects' = selects + 1
    /\ UNCHANGED auxVars
    /\ UNCHANGED <<backends, strategy, health_status, recovered, connections,
                   started, releases>>

\* LeastConnectionsBalancer::select_backend, lines 62-72: the minimum is found
\* under the read lock, which is then dropped
SelectLeastConnections(r) ==
    /\ req[r].pc = "select_backend"
    /\ strategy = "LeastConnections"
    /\ req' = [req EXCEPT
                 ![r].pc = "lc_write",
                 ![r].select_calls = @ + 1,
                 ![r].selected = LeastConnected(req[r].healthy_backends, connections).server_id,
                 ![r].conn_seen = connections]
    /\ UNCHANGED auxVars
    /\ UNCHANGED <<backends, strategy, health_status, recovered, counter, connections,
                   started, selects, releases>>

\* LeastConnectionsBalancer::select_backend, lines 75-80: the count is
\* incremented under the write lock and the backend returned
IncrementConnections(r) ==
    /\ req[r].pc = "lc_write"
    /\ connections' = Increment(connections, req[r].selected)
    /\ req' = Selected(r, req[r].selected, req[r].select_calls)
    /\ selects' = selects + 1
    /\ UNCHANGED auxVars
    /\ UNCHANGED <<backends, strategy, health_status, recovered, counter,
                   started, releases>>

\* lines 158-172: the forward URI is built and parsed; a parse error is 500
BuildUri(r, parsed) ==
    /\ req[r].pc = "build_uri"
    /\ IF parsed
       THEN req' = [req EXCEPT ![r].pc = "forwarding", ![r].forwarded = TRUE]
       ELSE req' = [req EXCEPT ![r] = Ended(@, "done", INTERNAL_SERVER_ERROR)]
    /\ UNCHANGED auxVars
    /\ UNCHANGED <<backends, strategy, health_status, recovered, counter, connections,
                   started, selects, releases>>

\* lines 190-198: client.request(req) resolves, with a response or an error
ForwardResponse(r, ok) ==
    /\ req[r].pc = "forwarding"
    /\ req' = [req EXCEPT ![r].pc = "release_backend",
                          ![r].status = IF ok THEN Upstream ELSE BAD_GATEWAY]
    /\ UNCHANGED auxVars
    /\ UNCHANGED <<backends, strategy, health_status, recovered, counter, connections,
                   started, selects, releases>>

\* lines 195 and 201: release_backend(&backend), then the handler returns
ReleaseBackend(r) ==
    /\ req[r].pc = "release_backend"
    /\ connections' = IF strategy = "LeastConnections"
                      THEN Decrement(connections, req[r].backend)
                      ELSE connections
    /\ req' = [req EXCEPT ![r] = [Ended(@, "done", @.status) EXCEPT !.released = @ + 1]]
    /\ releases' = releases + 1
    /\ UNCHANGED auxVars
    /\ UNCHANGED <<backends, strategy, health_status, recovered, counter,
                   started, selects>>

\* The points where the handler can be pending: the catalog query, the lock
\* acquisitions and the forwarded request.
Suspended(r) ==
    \/ req[r].pc \in {"get_file_backend", "is_backend_healthy", "get_healthy_backends",
                      "lc_write", "forwarding"}
    \/ /\ strategy = "LeastConnections"
       /\ req[r].pc \in {"select_backend", "release_backend"}

\* The client disconnects: the handler's future is dropped where it is pending
Cancel(r) ==
    /\ Suspended(r)
    /\ req' = [req EXCEPT ![r] = Ended(@, "cancelled", NoResponse)]
    /\ UNCHANGED auxVars
    /\ UNCHANGED <<backends, strategy, health_status, recovered, counter, connections,
                   started, selects, releases>>

\* The task is gone; the next request gets a task of its own
Finish(r) ==
    /\ req[r].pc \in {"done", "cancelled"}
    /\ req' = [req EXCEPT ![r] = IdleRequest]
    /\ UNCHANGED auxVars
    /\ UNCHANGED <<backends, strategy, health_status, recovered, counter, connections,
                   started, selects, releases>>

Next ==
    \/ \E id \in CatalogIds, ok \in BOOLEAN : check_backend(id, ok)
    \/ \E r \in Tasks, path \in Paths : ReceiveRequest(r, path)
    \/ \E r \in Tasks, result \in LookupResults : GetFileBackend(r, result)
    \/ \E r \in Tasks : IsBackendHealthy(r)
    \/ \E r \in Tasks : GetHealthyBackends(r)
    \/ \E r \in Tasks : SelectRoundRobin(r)
    \/ \E r \in Tasks : SelectRandom(r)
    \/ \E r \in Tasks : SelectWeighted(r)
    \/ \E r \in Tasks : SelectLeastConnections(r)
    \/ \E r \in Tasks : IncrementConnections(r)
    \/ \E r \in Tasks, parsed \in BOOLEAN : BuildUri(r, parsed)
    \/ \E r \in Tasks, ok \in BOOLEAN : ForwardResponse(r, ok)
    \/ \E r \in Tasks : ReleaseBackend(r)
    \/ \E r \in Tasks : Cancel(r)
    \/ \E r \in Tasks : Finish(r)

Spec == Init /\ [][Next]_vars

\* Two request tasks on a least-connections balancer, every backend healthy.
NextLC ==
    \/ \E r \in Tasks, path \in Paths : ReceiveRequest(r, path)
    \/ \E r \in Tasks, result \in LookupResults : GetFileBackend(r, result)
    \/ \E r \in Tasks : IsBackendHealthy(r)
    \/ \E r \in Tasks : GetHealthyBackends(r)
    \/ \E r \in Tasks : SelectLeastConnections(r)
    \/ \E r \in Tasks : IncrementConnections(r)
    \/ \E r \in Tasks, parsed \in BOOLEAN : BuildUri(r, parsed)
    \/ \E r \in Tasks, ok \in BOOLEAN : ForwardResponse(r, ok)
    \/ \E r \in Tasks : ReleaseBackend(r)
    \/ \E r \in Tasks : Cancel(r)
    \/ \E r \in Tasks : Finish(r)

SpecLC == InitLC /\ [][NextLC]_vars

\* The gateway started on an empty backends table (main.rs lines 53-57 only
\* warn): the health monitor has nothing to probe and two request tasks run.
InitEmpty ==
    /\ backends = <<>>
    /\ strategy \in Strategies
    /\ health_status = EmptyMap
    /\ recovered = {}
    /\ counter = 0
    /\ connections = EmptyMap
    /\ req = [r \in TwoTasks |-> IdleRequest]
    /\ started = 0
    /\ selects = 0
    /\ releases = 0
    /\ AuxInit

NextEmpty ==
    \/ \E r \in Tasks, path \in Paths : ReceiveRequest(r, path)
    \/ \E r \in Tasks, result \in LookupResults : GetFileBackend(r, result)
    \/ \E r \in Tasks : GetHealthyBackends(r)
    \/ \E r \in Tasks : Cancel(r)
    \/ \E r \in Tasks : Finish(r)

SpecEmpty == InitEmpty /\ [][NextEmpty]_vars

----------------------------------------------------------------------------
(* health.rs: the probe tasks of start_health_checks *)

InitProbes ==
    /\ backends \in Registries
    /\ strategy = "RoundRobin"
    /\ health_status = EmptyMap
    /\ recovered = {}
    /\ counter = 0
    /\ connections = EmptyMap
    /\ req = [r \in {} |-> IdleRequest]
    /\ started = 0
    /\ selects = 0
    /\ releases = 0
    /\ AuxInit

\* start_health_checks, lines 46-56: the interval ticks and one probe task
\* per backend is spawned, whether or not earlier probes have finished
SpawnProbes ==
    /\ probe_tick < MaxTicks
    /\ probe_tick' = probe_tick + 1
    /\ in_flight' = in_flight \cup
                      { [server_id |-> id, tick |-> probe_tick + 1] : id \in Ids(backends) }
    /\ UNCHANGED <<proxyVars, selectVars, limiterVars, pathVars, specificVars, statsVars,
                   applied>>

\* check_backend, lines 62-119: the probe's request has been answered and the
\* result is applied under the write lock
ProbeReturns(p, ok) ==
    /\ p \in in_flight
    /\ UpdateHealth(p.server_id, ok)
    /\ in_flight' = in_flight \ {p}
    /\ UNCHANGED probe_tick

NextProbes ==
    \/ SpawnProbes
    \/ \E p \in in_flight, ok \in BOOLEAN : ProbeReturns(p, ok)

SpecProbes == InitProbes /\ [][NextProbes]_vars

----------------------------------------------------------------------------
(* proxy.rs: proxy_to_specific_backend *)

\* Backend.server_url, as tokens; B's is stored with a trailing slash.
ServerUrl(id) ==
    IF id = "B" THEN <<"https://b.example.com", Slash>> ELSE <<"https://a.example.com">>

\* str::trim_end_matches('/')
RECURSIVE trim_end_matches(_)
trim_end_matches(url) ==
    IF url # <<>> /\ url[Len(url)] = Slash
    THEN trim_end_matches(SubSeq(url, 1, Len(url) - 1))
    ELSE url

\* str::strip_prefix(..).unwrap_or(path)
strip_prefix_or(path, prefix) ==
    IF Len(path) >= Len(prefix) /\ SubSeq(path, 1, Len(prefix)) = prefix
    THEN SubSeq(path, Len(prefix) + 1, Len(path))
    ELSE path

\* The path the router matched: /api/v1/backend/{server_id}/{rest} (main.rs line 114)
RoutePath(id, rest) ==
    <<Slash, "api", Slash, "v1", Slash, "backend", Slash, id, Slash>> \o rest

\* What follows the server_id on the route, and the query strings.
Rests == { <<"objects", Slash, "42">>, <<"f1">> }
Queries == { <<>>, <<"x=1">> }

find_backend_any(bs, id) == TRUE

\* line 217: backends.iter().find(|b| b.server_id == server_id) is Some
find_backend(bs, id) == id \in Ids(bs)

\* lines 238-245: the URL the request is forwarded to
backend_url(id, path, query) ==
    trim_end_matches(ServerUrl(id))
        \o strip_prefix_or(path, <<Slash, "backend", Slash, id>>)
        \o (IF query = <<>> THEN <<>> ELSE <<"?">> \o query)

InitSpecific ==
    /\ backends \in Registries
    /\ strategy \in Strategies
    /\ health_status = EmptyMap
    /\ recovered = {}
    /\ counter = 0
    /\ connections = EmptyMap
    /\ req = [r \in {} |-> IdleRequest]
    /\ started = 0
    /\ selects = 0
    /\ releases = 0
    /\ AuxInit

\* lines 211-223: a request arrives on the route; an unknown server_id is 404
ReceiveSpecific(id, rest, query) ==
    /\ sreq.pc = "idle"
    /\ sreq' = IF find_backend(backends, id)
               THEN [IdleSpecific EXCEPT !.pc = "is_backend_healthy", !.server_id = id,
                                         !.rest = rest, !.path = RoutePath(id, rest),
                                         !.query = query]
               ELSE [IdleSpecific EXCEPT !.pc = "done", !.server_id = id,
                                         !.status = NOT_FOUND]
    /\ UNCHANGED <<proxyVars, selectVars, limiterVars, pathVars, statsVars, probeVars>>

\* lines 226-270: the backend's health is read; unhealthy is 503; otherwise
\* the URL is built and parsed (a failure is 500) and the request is sent
SpecificIsHealthy(parsed) ==
    /\ sreq.pc = "is_backend_healthy"
    /\ sreq' = IF ~is_backend_healthy(health_status, sreq.server_id)
               THEN [sreq EXCEPT !.pc = "done", !.status = SERVICE_UNAVAILABLE]
               ELSE IF ~parsed
               THEN [sreq EXCEPT !.pc = "done", !.status = INTERNAL_SERVER_ERROR,
                                 !.url = backend_url(sreq.server_id, sreq.path, sreq.query)]
               ELSE [sreq EXCEPT !.pc = "forwarding", !.forwarded = TRUE,
                                 !.url = backend_url(sreq.server_id, sreq.path, sreq.query)]
    /\ UNCHANGED <<proxyVars, selectVars, limiterVars, pathVars, statsVars, probeVars>>

\* lines 273-286: the origin answers, or the transport fails (502)
SpecificForward(ok) ==
    /\ sreq.pc = "forwarding"
    /\ sreq' = [sreq EXCEPT !.pc = "done", !.status = IF ok THEN Upstream ELSE BAD_GATEWAY]
    /\ UNCHANGED <<proxyVars, selectVars, limiterVars, pathVars, statsVars, probeVars>>

\* The client disconnects while the handler awaits the read lock or the origin.
CancelSpecific ==
    /\ sreq.pc \in {"is_backend_healthy", "forwarding"}
    /\ sreq' = [sreq EXCEPT !.pc = "cancelled"]
    /\ UNCHANGED <<proxyVars, selectVars, limiterVars, pathVars, statsVars, probeVars>>

\* The task is gone.
FinishSpecific ==
    /\ sreq.pc \in {"done", "cancelled"}
    /\ sreq' = IdleSpecific
    /\ UNCHANGED <<proxyVars, selectVars, limiterVars, pathVars, statsVars, probeVars>>

NextSpecific ==
    \/ \E id \in CatalogIds, ok \in BOOLEAN : check_backend(id, ok)
    \/ \E id \in CatalogIds, rest \in Rests, query \in Queries : ReceiveSpecific(id, rest, query)
    \/ \E parsed \in BOOLEAN : SpecificIsHealthy(parsed)
    \/ \E ok \in BOOLEAN : SpecificForward(ok)
    \/ CancelSpecific
    \/ FinishSpecific

SpecSpecific == InitSpecific /\ [][NextSpecific]_vars

----------------------------------------------------------------------------
(* proxy.rs: gateway_stats *)

\* lines 295-316: one clone of the health map under the read lock, then the
\* snapshot is computed from that clone and the registry
gateway_stats ==
    LET h == health_status
    IN /\ stats' =
            [total_backends |-> Len(backends),
             healthy_backends |-> Cardinality({ id \in DOMAIN h : h[id].is_healthy }),
             backends |->
                 [i \in 1..Len(backends) |->
                     LET id == backends[i].server_id
                     IN [server_id |-> id,
                         is_healthy |-> IF id \in DOMAIN h THEN h[id].is_healthy ELSE TRUE,
                         consecutive_failures |->
                             IF id \in DOMAIN h THEN h[id].consecutive_failures ELSE 0]]]
       /\ UNCHANGED <<proxyVars, selectVars, limiterVars, pathVars, specificVars, probeVars>>

InitStats == InitSpecific

NextStats ==
    \/ \E id \in CatalogIds, ok \in BOOLEAN : check_backend(id, ok)
    \/ gateway_stats

SpecStats == InitStats /\ [][NextStats]_vars

----------------------------------------------------------------------------
(* The counter-based balancers under concurrent callers *)

\* Candidate lists that stay as they are for a whole behaviour: every
\* registered backend healthy and no probe running.
StableCandidates == { <<BackendA>>, <<BackendA, BackendB>>, <<BackendA, BackendB, BackendD>> }

\* Tasks calling select_backend on the shared balancer.
Callers == {"s1", "s2"}

BagAdd(bag, x) ==
    [y \in DOMAIN bag \cup {x} |->
        IF y = x THEN (IF x \in DOMAIN bag THEN bag[x] ELSE 0) + 1 ELSE bag[y]]

BagTotal(bag) == SumCounts(bag, DOMAIN bag)

InitSelect ==
    /\ backends \in StableCandidates
    /\ strategy \in {"RoundRobin", "WeightedRoundRobin"}
    /\ health_status = EmptyMap
    /\ recovered = {}
    /\ counter = 0
    /\ connections = EmptyMap
    /\ req = [r \in {} |-> IdleRequest]
    /\ started = 0
    /\ selects = 0
    /\ releases = 0
    /\ fetched = [t \in Callers |-> NoCall]
    /\ returned = EmptyMap
    /\ used = EmptyMap
    /\ NoLimiter
    /\ NoPath
    /\ NoLate

\* The fetch_add of either select_backend (strategies.rs lines 29 and 174):
\* the caller keeps the value it read.
FetchCounter(t) ==
    /\ fetched[t] = NoCall
    /\ BagTotal(used) < MaxSelects
    /\ fetched' = [fetched EXCEPT ![t] = counter]
    /\ used' = BagAdd(used, counter)
    /\ counter' = fetch_add(counter)
    /\ UNCHANGED <<backends, strategy, health_status, recovered, connections,
                   req, started, selects, releases, returned, limiterVars, pathVars, lateVars>>

ReturnWith(t, backend) ==
    /\ returned' = [v \in DOMAIN returned \cup {fetched[t]} |->
                        IF v = fetched[t] THEN backend.server_id ELSE returned[v]]
    /\ fetched' = [fetched EXCEPT ![t] = NoCall]
    /\ UNCHANGED <<backends, strategy, health_status, recovered, counter, connections,
                   req, started, selects, releases, used, limiterVars, pathVars, lateVars>>

\* RoundRobinBalancer::select_backend, lines 29-30, after the fetch_add
RoundRobinReturn(t) ==
    /\ fetched[t] # NoCall
    /\ strategy = "RoundRobin"
    /\ ReturnWith(t, round_robin_select(fetched[t], backends))

\* WeightedRoundRobinBalancer::select_backend, lines 174-176, after the fetch_add
WeightedReturn(t) ==
    /\ fetched[t] # NoCall
    /\ strategy = "WeightedRoundRobin"
    /\ ReturnWith(t, weighted_select(fetched[t], backends))

NextSelect ==
    \/ \E t \in Callers : FetchCounter(t)
    \/ \E t \in Callers : RoundRobinReturn(t)
    \/ \E t \in Callers : WeightedReturn(t)

SpecSelect == InitSelect /\ [][NextSelect]_vars

----------------------------------------------------------------------------
(* rate_limiter.rs: the cache commands it issues *)

TOO_MANY_REQUESTS == "429"

\* The two entries of the token (lines 33-34).
BlockKey == "rate_limit:blocked:T"
CountKey == "rate_limit:count:T"

Put(c, key, entry) == [k \in DOMAIN c \cup {key} |-> IF k = key THEN entry ELSE c[k]]

\* EXISTS
exists(c, key) == key \in DOMAIN c

\* INCR: one indivisible command; a missing key counts from 0 and gets no
\* time to live, an existing key keeps the one it has.
incr(c, key) ==
    IF key \in DOMAIN c
    THEN [c EXCEPT ![key].value = @ + 1]
    ELSE Put(c, key, [value |-> 1, expires_at |-> NoExpiry])

\* EXPIRE at time t
expire(c, key, secs, t) ==
    IF key \in DOMAIN c THEN [c EXCEPT ![key].expires_at = t + secs] ELSE c

\* SETEX at time t
set_ex(c, key, value, secs, t) == Put(c, key, [value |-> value, expires_at |-> t + secs])

\* DEL of one or more keys, one indivisible command
del(c, keys) == [k \in DOMAIN c \ keys |-> c[k]]

\* The keys whose time to live has run out at time t.
Expired(c, t) == {k \in DOMAIN c : c[k].expires_at # NoExpiry /\ c[k].expires_at <= t}

----------------------------------------------------------------------------
(* rate_limiter.rs: check_rate_limit, rate_limit_middleware, clear_rate_limit *)

LimiterTasks == {"m1", "m2"}

IdleCheck ==
    [pc |-> "idle", count |-> 0, epoch |-> 0, result |-> "none",
     response |-> "none", failed |-> "none"]

over_limit_late(count, max_requests) == count > max_requests + 1

\* line 54: count > config.max_requests
over_limit(count, max_requests) == count > max_requests

middleware_response_closed(result) ==
    CASE result = "allow" -> "next"
      [] OTHER -> TOO_MANY_REQUESTS

\* rate_limit_middleware, lines 118-138: Ok(true) and Err(_) run the next
\* stage, Ok(false) answers 429
middleware_response(result) ==
    CASE result = "allow" -> "next"
      [] result = "deny" -> TOO_MANY_REQUESTS
      [] result = "error" -> "next"

\* The task once check_rate_limit has returned and the middleware has answered.
Returned(t, result, failed) ==
    [chk EXCEPT ![t] = [IdleCheck EXCEPT !.pc = "done", !.result = result,
                                         !.response = middleware_response(result),
                                         !.failed = failed]]

\* The task once a cache command of step op has returned an error (the ? operator).
Failed(t, op) == Returned(t, "error", op)

\* What has touched the token's entries since the last clear, after task t
\* issues a command: t itself if its whole check follows the clear directly.
Touch(t) ==
    IF since_clear = "clear" /\ chk[t].pc = "exists" THEN t
    ELSE IF since_clear = t THEN t
    ELSE "other"

\* History kept when a call that incremented count entry e returns Ok(true).
RecordAllow(e) ==
    /\ allows' = BagAdd(allows, e)
    /\ allow_log' = IF exists(cache, BlockKey) THEN allow_log ELSE BagAdd(allow_log, now)

InitTokens(tasks) ==
    /\ backends \in Registries
    /\ strategy = "RoundRobin"
    /\ health_status = EmptyMap
    /\ recovered = {}
    /\ counter = 0
    /\ connections = EmptyMap
    /\ req = [r \in {} |-> IdleRequest]
    /\ started = 0
    /\ selects = 0
    /\ releases = 0
    /\ NoCallers
    /\ now = 0
    /\ config \in Configs
    /\ cache = EmptyMap
    /\ chk = [t \in tasks |-> IdleCheck]
    /\ checks = 0
    /\ epoch = 0
    /\ allows = EmptyMap
    /\ allow_log = EmptyMap
    /\ since_clear = "other"
    /\ info = IdleInfo
    /\ NoPath
    /\ NoLate

InitLimiter == InitTokens(LimiterTasks)

InitInfo == InitTokens({"m1"})


\* rate_limit_middleware, lines 108-120: a request arrives; without an upload
\* token it goes straight to the next stage
ReceiveLimited(t, has_token) ==
    /\ chk[t].pc \in {"idle", "done"}
    /\ checks < MaxChecks
    /\ checks' = checks + 1
    /\ chk' = [chk EXCEPT ![t] = IF has_token
                                 THEN [IdleCheck EXCEPT !.pc = "exists"]
                                 ELSE [IdleCheck EXCEPT !.pc = "done", !.response = "next"]]
    /\ since_clear' = IF since_clear = t THEN "other" ELSE since_clear
    /\ UNCHANGED <<proxyVars, selectVars, pathVars, lateVars, info, now, config, cache, epoch, allows, allow_log>>

\* check_rate_limit, lines 37-43: is the token blocked?
CheckExists(t, ok) ==
    /\ chk[t].pc = "exists"
    /\ chk' = IF ~ok THEN Failed(t, "exists")
              ELSE IF exists(cache, BlockKey) THEN Returned(t, "deny", "none")
              ELSE [chk EXCEPT ![t].pc = "incr"]
    /\ since_clear' = Touch(t)
    /\ UNCHANGED <<proxyVars, selectVars, pathVars, lateVars, info, now, config, cache, checks, epoch, allows, allow_log>>

\* check_rate_limit, lines 46-54 and 77: the count is incremented; a count
\* of 1 goes on to set the time to live, a larger one is compared at once
CheckIncr(t, ok) ==
    /\ chk[t].pc = "incr"
    /\ since_clear' = Touch(t)
    /\ IF ~ok
       THEN /\ chk' = Failed(t, "incr")
            /\ UNCHANGED <<cache, epoch, allows, allow_log>>
       ELSE LET after == incr(cache, CountKey)
                count == after[CountKey].value
                e == IF exists(cache, CountKey) THEN epoch ELSE epoch + 1
            IN /\ cache' = after
               /\ epoch' = e
               /\ IF count = 1
                  THEN /\ chk' = [chk EXCEPT ![t].pc = "expire", ![t].count = count,
                                             ![t].epoch = e]
                       /\ UNCHANGED <<allows, allow_log>>
                  ELSE IF over_limit(count, config.max_requests)
                  THEN /\ chk' = [chk EXCEPT ![t].pc = "set_ex", ![t].count = count]
                       /\ UNCHANGED <<allows, allow_log>>
                  ELSE /\ chk' = Returned(t, "allow", "none")
                       /\ RecordAllow(e)
    /\ UNCHANGED <<proxyVars, selectVars, pathVars, lateVars, info, now, config, checks>>

\* check_rate_limit, lines 49-54 and 77: the first request of a window sets
\* the count entry's time to live
CheckExpire(t, ok) ==
    /\ chk[t].pc = "expire"
    /\ since_clear' = Touch(t)
    /\ IF ~ok
       THEN /\ chk' = Failed(t, "expire")
            /\ UNCHANGED <<cache, allows, allow_log>>
       ELSE /\ cache' = expire(cache, CountKey, config.window_secs, now)
            /\ IF over_limit(chk[t].count, config.max_requests)
               THEN /\ chk' = [chk EXCEPT ![t].pc = "set_ex"]
                    /\ UNCHANGED <<allows, allow_log>>
               ELSE /\ chk' = Returned(t, "allow", "none")
                    /\ RecordAllow(chk[t].epoch)
    /\ UNCHANGED <<proxyVars, selectVars, pathVars, lateVars, info, now, config, checks, epoch>>

\* check_rate_limit, lines 63-68: the block entry is installed
CheckSetEx(t, ok) ==
    /\ chk[t].pc = "set_ex"
    /\ since_clear' = Touch(t)
    /\ IF ~ok
       THEN /\ chk' = Failed(t, "set_ex")
            /\ UNCHANGED <<cache, allow_log>>
       ELSE /\ cache' = set_ex(cache, BlockKey, "blocked", config.block_duration_secs, now)
            /\ chk' = [chk EXCEPT ![t].pc = "del"]
            /\ allow_log' = EmptyMap
    /\ UNCHANGED <<proxyVars, selectVars, pathVars, lateVars, info, now, config, checks, epoch, allows>>

\* check_rate_limit, lines 71-73: the count entry is deleted and the call denies
CheckDel(t, ok) ==
    /\ chk[t].pc = "del"
    /\ since_clear' = Touch(t)
    /\ IF ~ok
       THEN /\ chk' = Failed(t, "del")
            /\ UNCHANGED cache
       ELSE /\ cache' = del(cache, {CountKey})
            /\ chk' = Returned(t, "deny", "none")
    /\ UNCHANGED <<proxyVars, selectVars, pathVars, lateVars, info, now, config, checks, epoch, allows, allow_log>>

\* The client goes away while the middleware awaits a cache command: the
\* future is dropped and the command is never issued.
CancelCheck(t) ==
    /\ chk[t].pc \in {"exists", "incr", "expire", "set_ex", "del"}
    /\ chk' = [chk EXCEPT ![t] = [IdleCheck EXCEPT !.pc = "done", !.result = "dropped"]]
    /\ since_clear' = IF since_clear = t THEN "other" ELSE since_clear
    /\ UNCHANGED <<proxyVars, selectVars, pathVars, lateVars, info, now, config, cache, checks, epoch, allows, allow_log>>

ClearedKeysCountOnly == {CountKey}

\* line 184: the keys clear_rate_limit deletes
ClearedKeys == {BlockKey, CountKey}

\* clear_rate_limit, lines 176-189: one DEL of both keys
clear_rate_limit(ok) ==
    /\ cache' = IF ok THEN del(cache, ClearedKeys) ELSE cache
    /\ since_clear' = IF ok THEN "clear" ELSE "other"
    /\ allow_log' = IF ok THEN EmptyMap ELSE allow_log
    /\ UNCHANGED <<proxyVars, selectVars, pathVars, lateVars, info, now, config, chk, checks, epoch, allows>>

\* A second passes on the cache server: entries whose time to live has run
\* out are gone.
Tick ==
    /\ now < MaxTime
    /\ now' = now + 1
    /\ cache' = del(cache, Expired(cache, now + 1))
    /\ allow_log' = [t \in {u \in DOMAIN allow_log : u > now + 1 - config.window_secs} |->
                        allow_log[t]]
    /\ UNCHANGED <<proxyVars, selectVars, pathVars, lateVars, info, config, chk, checks, epoch, allows, since_clear>>

NextLimiter ==
    \/ \E t \in LimiterTasks, has_token \in BOOLEAN : ReceiveLimited(t, has_token)
    \/ \E t \in LimiterTasks, ok \in BOOLEAN : CheckExists(t, ok)
    \/ \E t \in LimiterTasks, ok \in BOOLEAN : CheckIncr(t, ok)
    \/ \E t \in LimiterTasks, ok \in BOOLEAN : CheckExpire(t, ok)
    \/ \E t \in LimiterTasks, ok \in BOOLEAN : CheckSetEx(t, ok)
    \/ \E t \in LimiterTasks, ok \in BOOLEAN : CheckDel(t, ok)
    \/ \E t \in LimiterTasks : CancelCheck(t)
    \/ \E ok \in BOOLEAN : clear_rate_limit(ok)
    \/ Tick

SpecLimiter == InitLimiter /\ [][NextLimiter]_vars

\* The middleware tasks alone: nobody clears the token.
NextChecks ==
    \/ \E t \in LimiterTasks, has_token \in BOOLEAN : ReceiveLimited(t, has_token)
    \/ \E t \in LimiterTasks, ok \in BOOLEAN : CheckExists(t, ok)
    \/ \E t \in LimiterTasks, ok \in BOOLEAN : CheckIncr(t, ok)
    \/ \E t \in LimiterTasks, ok \in BOOLEAN : CheckExpire(t, ok)
    \/ \E t \in LimiterTasks, ok \in BOOLEAN : CheckSetEx(t, ok)
    \/ \E t \in LimiterTasks, ok \in BOOLEAN : CheckDel(t, ok)
    \/ \E t \in LimiterTasks : CancelCheck(t)
    \/ Tick

SpecChecks == InitLimiter /\ [][NextChecks]_vars

----------------------------------------------------------------------------
(* rate_limiter.rs: get_rate_limit_info *)

\* TTL: -2 for a missing key, -1 for a key without a time to live
ttl(c, key, t) ==
    IF key \notin DOMAIN c THEN -2
    ELSE IF c[key].expires_at = NoExpiry THEN -1
    ELSE c[key].expires_at - t

\* lines 146-149: the call begins
InfoStart ==
    /\ info.pc \in {"idle", "done", "failed"}
    /\ info' = [IdleInfo EXCEPT !.pc = "exists"]
    /\ UNCHANGED <<proxyVars, selectVars, pathVars, lateVars, now, config, cache, chk, checks, epoch,
                   allows, allow_log, since_clear>>

\* line 151: is_blocked = exists(block_key)
InfoExists(ok) ==
    /\ info.pc = "exists"
    /\ info' = IF ok THEN [info EXCEPT !.pc = "get", !.is_blocked = exists(cache, BlockKey)]
               ELSE [IdleInfo EXCEPT !.pc = "failed"]
    /\ since_clear' = "other"
    /\ UNCHANGED <<proxyVars, selectVars, pathVars, lateVars, now, config, cache, chk, checks, epoch,
                   allows, allow_log>>

\* lines 152-159: request_count = get(count_key); with neither entry seen
\* the call returns at once
InfoGet(ok) ==
    /\ info.pc = "get"
    /\ info' = IF ~ok THEN [IdleInfo EXCEPT !.pc = "failed"]
               ELSE LET request_count == IF exists(cache, CountKey)
                                         THEN cache[CountKey].value ELSE -1
                    IN [info EXCEPT !.request_count = request_count,
                                    !.pc = IF info.is_blocked \/ request_count # -1
                                           THEN "ttl" ELSE "done"]
    /\ since_clear' = "other"
    /\ UNCHANGED <<proxyVars, selectVars, pathVars, lateVars, now, config, cache, chk, checks, epoch,
                   allows, allow_log>>

\* lines 153-165: the ttl of the block entry if the token was seen blocked,
\* else of the count entry; RateLimitInfo is returned
InfoTtl(ok) ==
    /\ info.pc = "ttl"
    /\ info' = IF ~ok THEN [IdleInfo EXCEPT !.pc = "failed"]
               ELSE [info EXCEPT !.pc = "done",
                                 !.ttl = ttl(cache, IF info.is_blocked THEN BlockKey
                                                    ELSE CountKey, now)]
    /\ since_clear' = "other"
    /\ UNCHANGED <<proxyVars, selectVars, pathVars, lateVars, now, config, cache, chk, checks, epoch,
                   allows, allow_log>>

\* One middleware task and one caller of get_rate_limit_info.
NextInfo ==
    \/ \E t \in DOMAIN chk, has_token \in BOOLEAN : ReceiveLimited(t, has_token)
    \/ \E t \in DOMAIN chk, ok \in BOOLEAN : CheckExists(t, ok)
    \/ \E t \in DOMAIN chk, ok \in BOOLEAN : CheckIncr(t, ok)
    \/ \E t \in DOMAIN chk, ok \in BOOLEAN : CheckExpire(t, ok)
    \/ \E t \in DOMAIN chk, ok \in BOOLEAN : CheckSetEx(t, ok)
    \/ \E t \in DOMAIN chk, ok \in BOOLEAN : CheckDel(t, ok)
    \/ \E t \in DOMAIN chk : CancelCheck(t)
    \/ InfoStart
    \/ \E ok \in BOOLEAN : InfoExists(ok)
    \/ \E ok \in BOOLEAN : InfoGet(ok)
    \/ \E ok \in BOOLEAN : InfoTtl(ok)
    \/ Tick

SpecInfo == InitInfo /\ [][NextInfo]_vars

----------------------------------------------------------------------------
(* proxy.rs: extract_file_id_from_path on request paths *)

\* What a path segment can be: empty, a route word or a file name.
SegmentNames == {"", "api", "v1", "files", "download", "f1"}

\* The tokens of the segments joined by slashes; an empty segment has none.
RECURSIVE JoinSlash(_)
JoinSlash(segments) ==
    IF segments = <<>> THEN <<>>
    ELSE (IF Head(segments) = "" THEN <<>> ELSE <<Head(segments)>>)
         \o (IF Tail(segments) = <<>> THEN <<>> ELSE <<Slash>> \o JoinSlash(Tail(segments)))

\* Request paths: a slash followed by up to MaxSegments segments.
RawPaths ==
    { <<Slash>> \o JoinSlash(segments) :
        segments \in UNION { [1..n -> SegmentNames] : n \in 0..MaxSegments } }

InitPaths ==
    /\ backends \in Registries
    /\ strategy = "RoundRobin"
    /\ health_status = EmptyMap
    /\ recovered = {}
    /\ counter = 0
    /\ connections = EmptyMap
    /\ req = [r \in {} |-> IdleRequest]
    /\ started = 0
    /\ selects = 0
    /\ releases = 0
    /\ NoCallers
    /\ NoLimiter
    /\ raw_path \in RawPaths
    /\ extracted = NotYet
    /\ NoLate

\* proxy_handler, lines 107-110: the file ID is extracted from the request path
ExtractFileId ==
    /\ extracted = NotYet
    /\ extracted' = extract_file_id(raw_path)
    /\ UNCHANGED <<proxyVars, selectVars, limiterVars, lateVars, raw_path>>

NextPaths == ExtractFileId

SpecPaths == InitPaths /\ [][NextPaths]_vars

----------------------------------------------------------------------------
(* Properties *)

Healthy == [is_healthy |-> TRUE, consecutive_failures |-> 0]

\* A task whose backend is resolved and whose routing locals are still held.
Routed(r) == req[r].pc \in {"build_uri", "forwarding", "release_backend"}

\* C1: in every reachable state of the health map, an entry has
\* is_healthy = false if and only if its consecutive_failures is at least 3.
C1_UnhealthyIffThreeFailures ==
    \A id \in DOMAIN health_status :
        (~health_status[id].is_healthy) <=> (health_status[id].consecutive_failures >= 3)

\* One backend is at three or more failures and unhealthy while another is
\* at two failures and still healthy.
C1_Witness ==
    \E a, b \in DOMAIN health_status :
        /\ health_status[a].consecutive_failures >= 3 /\ ~health_status[a].is_healthy
        /\ health_status[b].consecutive_failures = 2 /\ health_status[b].is_healthy

\* C2: whatever the entry of a backend holds, the step that applies one
\* successful probe to it leaves is_healthy = true and consecutive_failures = 0,
\* and a request reading the health map in the state reached finds the backend
\* healthy and in the healthy subset.
C2_OneSuccessRestores ==
    [][\A id \in CatalogIds :
          check_backend(id, TRUE) =>
             /\ health_status'[id] = Healthy
             /\ id \notin MarkedUnhealthy(health_status')
             /\ is_backend_healthy(health_status', id)
             /\ id \in Ids(get_healthy_backends(health_status', backends'))]_vars

\* A backend that was unhealthy has just been restored by one success.
C2_Witness ==
    \E id \in recovered :
        /\ health_status[id] = Healthy
        /\ id \in Ids(get_healthy_backends(health_status, backends))

\* C3: a backend that select_backend returned (or, for least-connections, has
\* picked) was not marked unhealthy in the health map when the request read
\* its healthy subset, and is a backend of the registry.
C3_NeverSelectsUnhealthy ==
    \A r \in Tasks :
        /\ (req[r].via_lb /\ Routed(r)) =>
              req[r].backend \in Ids(backends) \ req[r].seen_unhealthy
        /\ req[r].pc = "lc_write" =>
              req[r].selected \in Ids(backends) \ req[r].seen_unhealthy

\* Round-robin with A marked unhealthy at the read: B is selected and forwarded to.
C3_Witness ==
    \E r \in Tasks :
        /\ strategy = "RoundRobin"
        /\ req[r].pc = "forwarding" /\ req[r].via_lb
        /\ req[r].seen_unhealthy = {"A"} /\ req[r].backend = "B"

\* C4: a request whose lookup returned an owner never calls select_backend and
\* is never resolved or forwarded to anything but the owner; with the owner
\* absent from the registry it is answered 500, with the owner registered but
\* marked unhealthy when its health was read it is answered 503, both without
\* forwarding; with the owner registered and not marked unhealthy the handler
\* goes on with the owner as its backend.
C4_OwnerOrRejected ==
    \A r \in Tasks :
        req[r].owner # NoId =>
           /\ req[r].select_calls = 0 /\ ~req[r].via_lb
           /\ req[r].backend \in {NoId, req[r].owner}
           /\ req[r].forwarded => req[r].backend = req[r].owner
           /\ req[r].owner \notin Ids(backends) =>
                 /\ req[r].pc = "done" /\ req[r].status = "500"
                 /\ ~req[r].forwarded /\ req[r].backend = NoId
           /\ (req[r].owner \in Ids(backends)
                 /\ req[r].pc \notin {"is_backend_healthy", "cancelled"}) =>
                 IF req[r].owner \in req[r].seen_unhealthy
                 THEN /\ req[r].pc = "done" /\ req[r].status = "503"
                      /\ ~req[r].forwarded /\ req[r].backend = NoId
                 ELSE /\ req[r].backend = req[r].owner
                      /\ req[r].status # "503"
                      /\ req[r].pc = "done" => (req[r].forwarded \/ req[r].status = "500")

\* The file is owned by B and the request is forwarded to B although the
\* round-robin counter stands at 0, which would have picked A.
C4_Witness ==
    \E r \in Tasks :
        /\ strategy = "RoundRobin" /\ counter = 0
        /\ req[r].owner = "B" /\ req[r].pc = "forwarding"
        /\ req[r].forwarded /\ req[r].backend = "B"

\* A request with a file ID whose lookup answered "not found" or an error.
FellBack(r) ==
    /\ req[r].file_id # NoFile
    /\ req[r].owner = NoId
    /\ req[r].pc \notin {"idle", "get_file_backend"}

TotalConnections == SumCounts(connections, DOMAIN connections)

\* C5: when the lookup answers "not found" or an error, the handler is left
\* where a request without a file ID starts (about to read the healthy
\* subset, nothing selected, no response); from there the request calls
\* select_backend once on a non-empty healthy subset, which advances the
\* balancer once, and resolution answers an error only as 503 with every
\* registered backend marked unhealthy at the read.
C5_FallbackIsLoadBalanced ==
    /\ [](\A r \in Tasks :
            FellBack(r) =>
               /\ req[r].pc = "done" /\ req[r].backend = NoId =>
                     /\ req[r].status = "503"
                     /\ req[r].select_calls = 0
                     /\ Ids(backends) \subseteq req[r].seen_unhealthy
               /\ req[r].pc = "select_backend" =>
                     /\ req[r].healthy_backends # <<>>
                     /\ Ids(req[r].healthy_backends) = Ids(backends) \ req[r].seen_unhealthy
               /\ req[r].backend # NoId =>
                     /\ req[r].via_lb /\ req[r].select_calls = 1
                     /\ Routed(r) => req[r].backend \in Ids(req[r].healthy_backends))
    /\ [][\A r \in Tasks :
            /\ (req[r].pc = "get_file_backend" /\ req'[r].owner = NoId
                  /\ req'[r].pc \notin {"get_file_backend", "cancelled"}) =>
                  req'[r] = [IdleRequest EXCEPT !.pc = "get_healthy_backends",
                                                !.file_id = req[r].file_id]
            /\ (FellBack(r) /\ ~req[r].via_lb /\ req'[r].via_lb) =>
                  /\ selects' = selects + 1
                  /\ strategy \in {"RoundRobin", "WeightedRoundRobin"} =>
                        counter' = counter + 1
                  /\ strategy = "LeastConnections" =>
                        TotalConnections' = TotalConnections + 1]_vars

\* The lookup found nothing, round-robin stood at 0: the request is proxied to
\* A and the counter is 1.
C5_Witness ==
    \E r \in Tasks :
        /\ strategy = "RoundRobin" /\ counter = 1
        /\ FellBack(r) /\ req[r].pc = "forwarding"
        /\ req[r].via_lb /\ req[r].backend = "A"
        /\ Len(req[r].healthy_backends) = 2

\* C6: a request that has returned and whose backend came from select_backend
\* has called release_backend exactly once.
C6_ReleasedOncePerSelection ==
    \A r \in Tasks :
        (req[r].pc = "done" /\ req[r].via_lb) => req[r].released = 1

\* C7: a request cancelled after select_backend returned its backend has
\* called release_backend for it.
C7_ReleasedOnCancel ==
    \A r \in Tasks :
        (req[r].pc = "cancelled" /\ req[r].via_lb) => req[r].released = 1

\* C8: least-connections: the counts sum to the successful selects minus the
\* release calls, and no count is negative.
C8_CountsBalance ==
    strategy = "LeastConnections" =>
       /\ TotalConnections = selects - releases
       /\ \A id \in DOMAIN connections : connections[id] >= 0

\* C9: least-connections: a select increments a candidate whose count is, at
\* the moment of the increment, minimal among the select's candidates.
C9_IncrementsAMinimum ==
    [][\A r \in Tasks :
          (req[r].pc = "lc_write" /\ req'[r].pc = "build_uri") =>
             \A i \in 1..Len(req[r].healthy_backends) :
                Count(connections, req'[r].backend)
                   <= Count(connections, req[r].healthy_backends[i].server_id)]_vars

\* The position of id in the candidate list bs.
Position(bs, id) == CHOOSE i \in 1..Len(bs) : bs[i].server_id = id

\* C10: least-connections: select picks the first candidate in list order
\* among those of minimum count (absent = 0); if the count map is still as
\* the select read it, the select adds 1 to that candidate's count and leaves
\* every other count as it was; and if the map is still as the select left it,
\* the request's release takes that 1 back and changes no other count.
C10_FirstMinimumThenRelease ==
    [][\A r \in Tasks :
          /\ (req[r].pc = "select_backend" /\ req'[r].pc = "lc_write") =>
                LET bs == req[r].healthy_backends
                    id == req'[r].selected
                IN /\ id \in Ids(bs)
                   /\ \A j \in 1..Len(bs) :
                         /\ Count(connections, bs[j].server_id) >= Count(connections, id)
                         /\ j < Position(bs, id) =>
                               Count(connections, bs[j].server_id) > Count(connections, id)
          /\ (req[r].pc = "lc_write" /\ req'[r].pc = "build_uri"
                /\ connections = req[r].conn_seen) =>
                /\ req'[r].backend = req[r].selected
                /\ Count(connections', req[r].selected) = Count(connections, req[r].selected) + 1
                /\ \A id \in CatalogIds \ {req[r].selected} :
                      Count(connections', id) = Count(connections, id)
          /\ (req[r].pc = "release_backend" /\ req'[r].pc = "done" /\ req[r].via_lb
                /\ connections = Increment(req[r].conn_seen, req[r].backend)) =>
                /\ Count(connections', req[r].backend) = Count(req[r].conn_seen, req[r].backend)
                /\ Count(connections', req[r].backend) = Count(connections, req[r].backend) - 1
                /\ \A id \in CatalogIds \ {req[r].backend} :
                      Count(connections', id) = Count(connections, id)]_vars

\* The counts were {A:2, B:0} (B absent) when the select read them: B was
\* selected and its count is 1.
C10_Witness ==
    \E r \in Tasks :
        /\ req[r].pc = "forwarding" /\ req[r].via_lb
        /\ Count(req[r].conn_seen, "A") = 2 /\ Count(req[r].conn_seen, "B") = 0
        /\ req[r].backend = "B"
        /\ connections = Increment(req[r].conn_seen, "B")
        /\ connections["B"] = 1

\* The select_backend calls that have returned server_id id.
Picks(id) == Cardinality({v \in DOMAIN returned : returned[v] = id})

Quiescent == \A t \in DOMAIN fetched : fetched[t] = NoCall

CeilDiv(n, k) == (n + k - 1) \div k

\* C11: round robin over a stable non-empty candidate list of size k: once N
\* select_backend calls have been made and have all returned, in whatever
\* interleaving, every candidate has been returned floor(N/k) or ceil(N/k) times.
C11_RoundRobinIsEven ==
    (strategy = "RoundRobin" /\ DOMAIN fetched # {} /\ Quiescent) =>
        LET N == Cardinality(DOMAIN returned)
            k == Len(backends)
        IN \A id \in Ids(backends) : Picks(id) \in {N \div k, CeilDiv(N, k)}

C11_Witness ==
    /\ strategy = "RoundRobin"
    /\ Len(backends) = 3
    /\ Quiescent
    /\ Cardinality(DOMAIN returned) = 7
    /\ Picks("A") = 3
    /\ Picks("D") = 2

\* C12: concurrent select_backend calls on one round-robin balancer read
\* pairwise distinct counter values and no increment is lost: after n calls
\* the counter is n and the values read are exactly 0..n-1, each once.
C12_DistinctCounterValues ==
    DOMAIN fetched # {} =>
        /\ \A v \in DOMAIN used : used[v] = 1
        /\ DOMAIN used = 0..(counter - 1)
        /\ counter = BagTotal(used)
        /\ \A t1, t2 \in DOMAIN fetched :
              (t1 # t2 /\ fetched[t1] # NoCall) => fetched[t1] # fetched[t2]

C12_Witness ==
    /\ strategy = "RoundRobin"
    /\ \A t \in Callers : t \in DOMAIN fetched /\ fetched[t] # NoCall
    /\ counter = 5

\* The selections of the period that starts at counter value m * W.
PeriodValues(m, W) == (m * W)..(m * W + W - 1)

\* C13: weighted round robin over a stable candidate list with weights w_i
\* and period W = sum of the w_i: among the W consecutive selections that
\* start at a multiple of W, candidate i is returned exactly w_i times.
C13_WeightedPeriodIsExact ==
    (strategy = "WeightedRoundRobin" /\ DOMAIN fetched # {}) =>
        LET W == Len(weighted_backends(backends))
        IN \A m \in 0..(MaxSelects \div W) :
              PeriodValues(m, W) \subseteq DOMAIN returned =>
                 \A i \in 1..Len(backends) :
                    Cardinality({v \in PeriodValues(m, W) :
                                    returned[v] = backends[i].server_id})
                      = get_weight(backends[i].provider)

C13_Witness ==
    /\ strategy = "WeightedRoundRobin"
    /\ Len(backends) = 3
    /\ PeriodValues(1, 5) \subseteq DOMAIN returned
    /\ Cardinality({v \in PeriodValues(1, 5) : returned[v] = "A"}) = 3

\* The original reading of C14: with the block entry absent, no interval of
\* window_secs seconds holds more than max_requests allows.  allow_log keeps
\* the allows of the window_secs seconds that end now.
C14_AtMostMaxPerInterval == BagTotal(allow_log) <= config.max_requests

\* C14: among the check_rate_limit calls that incremented one count entry
\* (one window: from the increment that creates the entry until it expires
\* or is deleted), at most max_requests return allow, in any interleaving.
C14_AtMostMaxPerCountEntry ==
    \A e \in DOMAIN allows : allows[e] <= config.max_requests

C14_Witness ==
    /\ config.max_requests = 2
    /\ epoch \in DOMAIN allows
    /\ allows[epoch] = 2
    /\ \E t \in DOMAIN chk : chk[t].pc = "set_ex" /\ chk[t].count = 3

\* C15: no check_rate_limit call returns allow while the block entry is in
\* the cache, calls that began before the block was installed included.
C15_NoAllowWhileBlocked ==
    [][\A t \in DOMAIN chk :
          (chk[t].result # "allow" /\ chk'[t].result = "allow")
             => ~exists(cache', BlockKey)]_vars

\* The task whose whole check came directly after the last successful clear.
FollowsClear(t) == chk[t].pc = "done" /\ since_clear = t /\ chk[t].result \in {"allow", "deny"}

C18_FailOpen ==
    \A t \in DOMAIN chk :
        (chk[t].pc = "done" /\ chk[t].failed # "none") =>
            /\ chk[t].response = "next"
            /\ chk[t].response # TOO_MANY_REQUESTS

C18_Witness ==
    /\ \E t \in DOMAIN chk : chk[t].failed = "set_ex" /\ chk[t].response = "next"
    /\ \E u \in DOMAIN chk : chk[u].failed = "del" /\ chk[u].response = "next"

\* C16: a threshold breach is atomic to its observers: no get_rate_limit_info
\* reports the token blocked together with a count entry above max_requests.
C16_BreachIsAtomic ==
    ~(info.pc \in {"ttl", "done"} /\ info.is_blocked
        /\ over_limit(info.request_count, config.max_requests))

\* The original reading of C19: with an empty registry every answer of the
\* default proxy is 503.
C19_EmptyRegistryAlways503 ==
    backends = <<>> =>
        \A r \in Tasks : req[r].pc = "done" => req[r].status = SERVICE_UNAVAILABLE

\* C19: with an empty registry no request is forwarded; the default proxy
\* answers 500 when the catalog names an owner for the file and 503 in every
\* other case (no file ID in the path, lookup not found, lookup error).
C19_EmptyRegistry503Or500 ==
    backends = <<>> =>
        \A r \in Tasks :
            /\ req[r].pc \in {"idle", "get_file_backend", "get_healthy_backends",
                               "done", "cancelled"}
            /\ ~req[r].forwarded
            /\ req[r].pc = "done" =>
                  req[r].status = IF req[r].owner # NoId THEN INTERNAL_SERVER_ERROR
                                  ELSE SERVICE_UNAVAILABLE

C19_Witness ==
    /\ backends = <<>>
    /\ req["t1"].pc = "done" /\ req["t1"].owner = "A"
    /\ req["t1"].status = INTERNAL_SERVER_ERROR
    /\ req["t2"].pc = "done" /\ req["t2"].file_id # NoFile /\ req["t2"].owner = NoId
    /\ req["t2"].status = SERVICE_UNAVAILABLE

\* The paths that end in an empty segment after the files prefix, and the root.
TrailingSlashPaths ==
    { <<Slash, "api", Slash, "v1", Slash, "files", Slash>>,
      <<Slash, "files", Slash>>,
      <<Slash>> }

\* C20: extract_file_id_from_path returns no ID for /api/v1/files/, /files/
\* and /: a trailing empty segment is never returned as a file ID.
C20_NoIdForTrailingSlash ==
    (raw_path \in TrailingSlashPaths /\ extracted # NotYet) => extracted = NoFile

\* File IDs: non-empty and without a slash, the route words among them.
FileIds == SegmentNames \ {""}

\* The five recognized templates with id substituted.
TemplatePaths(id) ==
    { <<Slash, "api", Slash, "v1", Slash, "files", Slash, "download", Slash, id>>,
      <<Slash, "api", Slash, "v1", Slash, "files", Slash, id>>,
      <<Slash, "files", Slash, "download", Slash, id>>,
      <<Slash, "files", Slash, id>>,
      <<Slash, "download", Slash, id>> }

\* C21: for each of the five templates and every non-empty ID without a
\* slash, the ID extracted from the template with the ID substituted is that
\* ID, also when the ID is the word download or files.
C21_TemplateRoundTrip ==
    \A id \in FileIds :
        (raw_path \in TemplatePaths(id) /\ extracted # NotYet) => extracted = id

C21_Witness ==
    /\ raw_path = <<Slash, "api", Slash, "v1", Slash, "files", Slash, "download">>
    /\ extracted = "download"

\* C24: a non-empty ID is extracted only from a path that is exactly one of
\* the five templates; every other path shape yields no file ID.
C24_OnlyTemplatesYieldAnId ==
    (extracted \notin {NotYet, NoFile, ""}) =>
        \E id \in FileIds : raw_path \in TemplatePaths(id)

\* C27: however the probe tasks of one backend overlap and in whatever order
\* they finish, each result is applied as one read-modify-write of the
\* backend's entry: consecutive_failures is the number of failure results
\* applied since the last applied success (or since the entry was created).
C27_FailuresCountApplied ==
    /\ DOMAIN health_status = DOMAIN applied
    /\ \A id \in DOMAIN health_status :
          health_status[id].consecutive_failures = applied[id]

C27_Witness ==
    /\ [server_id |-> "A", tick |-> 1] \in in_flight
    /\ [server_id |-> "A", tick |-> 2] \notin in_flight
    /\ [server_id |-> "A", tick |-> 3] \notin in_flight
    /\ probe_tick = 3
    /\ "A" \in DOMAIN health_status
    /\ health_status["A"].consecutive_failures = 2

\* C22: a request on /api/v1/backend/{server_id}/{rest} for a registered,
\* healthy backend is forwarded to the backend's server_url without its
\* trailing slash, then "/" and rest, then the original query string.
C22_PrefixIsStripped ==
    sreq.forwarded =>
        sreq.url = trim_end_matches(ServerUrl(sreq.server_id)) \o <<Slash>> \o sreq.rest
                     \o (IF sreq.query = <<>> THEN <<>> ELSE <<"?">> \o sreq.query)

\* C23: proxy_to_specific_backend leaves the balancer alone (no select, no
\* release, counter and connection counts as they were) whatever its outcome;
\* an unregistered server_id is answered 404 and a registered one read as
\* unhealthy 503, and neither is forwarded.
C23_SpecificModeBypassesBalancer ==
    /\ [][sreq' # sreq => UNCHANGED <<counter, connections, selects, releases>>]_vars
    /\ [](sreq.server_id \notin Ids(backends) /\ sreq.pc = "done"
            => sreq.status = NOT_FOUND /\ ~sreq.forwarded)
    /\ [][(sreq.pc = "is_backend_healthy" /\ sreq'.pc # "cancelled" /\ sreq' # sreq
              /\ sreq.server_id \in MarkedUnhealthy(health_status))
            => (sreq'.pc = "done" /\ sreq'.status = SERVICE_UNAVAILABLE
                  /\ ~sreq'.forwarded)]_vars

C23_Witness ==
    /\ sreq.pc = "done"
    /\ sreq.server_id = "B"
    /\ sreq.status = SERVICE_UNAVAILABLE
    /\ "B" \in MarkedUnhealthy(health_status)

\* C25: a count entry left without a time to live does not survive the
\* request that raises it above max_requests: when that request leaves the
\* handler the count entry is gone.
C25_StuckCounterEndsAtOverflow ==
    [][\A t \in DOMAIN chk :
          (/\ chk[t].pc \in {"set_ex", "del"}
           /\ chk'[t].pc = "done"
           /\ exists(cache, CountKey)
           /\ cache[CountKey].expires_at = NoExpiry)
          => ~exists(cache', CountKey)]_vars

\* C26: a request whose backend came from the catalog lookup, not from
\* select_backend, leaves the balancer as it was at every step it takes: no
\* release call, no connection count changed.
C26_ContentAddressedLeavesBalancer ==
    [][\A r \in Tasks :
          (req'[r] # req[r] /\ ~req[r].via_lb /\ ~req'[r].via_lb)
          => UNCHANGED <<counter, connections, selects, releases>>]_vars

\* C28: least-connections: when no request of the default proxy is in flight,
\* every connection count is 0.
C28_CountsZeroAtQuiescence ==
    (strategy = "LeastConnections"
       /\ \A r \in Tasks : req[r].pc \in {"idle", "done", "cancelled"})
    => \A id \in DOMAIN connections : connections[id] = 0

\* C29: in every stats snapshot healthy_backends is the number of entries of
\* the backends array with is_healthy = true, and is at most total_backends.
C29_HealthyCountMatchesArray ==
    stats # NoStats =>
        /\ stats.healthy_backends =
              Cardinality({ i \in 1..Len(stats.backends) : stats.backends[i].is_healthy })
        /\ stats.healthy_backends <= stats.total_backends

====
